---- MODULE Spec2Model ----
(***************************************************************************)
(* Point and click of Frescobaldi's music view                             *)
(* (frescobaldi_app/musicview/pointandclick.py).                           *)
(*                                                                         *)
(* Links      : the textedit links of one Poppler document, by file name   *)
(*              and (line, column), and the file names bound to open text  *)
(*              documents (_docs, a WeakValueDictionary).                  *)
(* BoundLinks : the links of one file as QTextCursors in a text document   *)
(*              (_cursor_dict, _cursors, _destinations) and the query      *)
(*              indices(cursor).                                           *)
(*                                                                         *)
(* A text document is a sequence of one-character strings; "\n" separates  *)
(* its blocks (lines).  Positions, block numbers, columns and list indices *)
(* are 0-based as in the source; TLA+ sequences are 1-based, so element i  *)
(* of a Python list is s[i+1].                                             *)
(***************************************************************************)
EXTENDS Integers, Sequences, FiniteSets, TLC

\* ------------------------------------------------------------------ bounds

\* Edits (one character inserted or removed) made to a document after Init.
MaxEdits == 1
\* Keys (line, column) of one file in the link table.
MaxKeys == 2
\* Largest column of a key.
MaxCol == 2
\* Links of all the pages of a Poppler document whose table is built.
MaxLinks == 3

\* --------------------------------------------------------- text documents

NL == "\n"

\* Indices (1-based) of the block separators of text t.
NLs(t) == {i \in 1..Len(t) : t[i] = NL}

\* QTextDocument.blockCount()
blockCount(t) == Cardinality(NLs(t)) + 1

\* QTextDocument.findBlockByNumber(n).isValid()
isValid(t, n) == n >= 0 /\ n < blockCount(t)

\* QTextBlock.position() of block n; 0 for a block that is not valid.
blockPosition(t, n) ==
    IF n <= 0 \/ n >= blockCount(t) THEN 0
    ELSE CHOOSE i \in NLs(t) : Cardinality({j \in NLs(t) : j <= i}) = n

\* QTextCursor.block().blockNumber() of a cursor at position p
blockNumber(t, p) == Cardinality({i \in NLs(t) : i <= p})

\* The characters of block n, without its separator.
blockText(t, n) ==
    LET from == blockPosition(t, n) + 1
        to   == IF n + 1 < blockCount(t) THEN blockPosition(t, n + 1) - 1
                ELSE Len(t)
    IN  SubSeq(t, from, to)

\* QTextCursor.setPosition(pos) on a fresh cursor (at 0): Qt refuses a
\* position outside the document (pos >= length, the length counting the
\* final block separator) and leaves the cursor where it is.
setPosition(t, pos) == IF pos < 0 \/ pos > Len(t) THEN 0 ELSE pos

\* A QTextCursor at position c after one character is inserted at p.
adjustInsert(c, p) == IF c >= p THEN c + 1 ELSE c

\* A QTextCursor at position c after the character at p is removed.
adjustRemove(c, p) == IF c > p THEN c - 1 ELSE c

insertAt(t, p, ch) == SubSeq(t, 1, p) \o <<ch>> \o SubSeq(t, p + 1, Len(t))

removeAt(t, p) == SubSeq(t, 1, p) \o SubSeq(t, p + 2, Len(t))

\* ----------------------------------------------------------------- tokens

\* The token that is the single character ch at column pos.
Token1(ch, pos) ==
    [pos |-> pos,
     kind |-> IF ch \in {"(", "["} THEN "MatchStart"
              ELSE IF ch \in {")", "]", "}"} THEN "MatchEnd"
              ELSE "Token",
     matchname |-> IF ch \in {"(", ")"} THEN "slur"
                   ELSE IF ch \in {"[", "]"} THEN "beam"
                   ELSE IF ch = "}" THEN "bracket"
                   ELSE ""]

\* tokeniter.tokens(block): the tokens of a line from its character i on.
\* "\(" and "\)" are the two-character phrasing slur tokens.
RECURSIVE tokenize(_, _)
tokenize(line, i) ==
    IF i > Len(line) THEN <<>>
    ELSE IF line[i] = "\\" /\ i < Len(line) /\ line[i + 1] \in {"(", ")"}
    THEN <<[pos |-> i - 1,
            kind |-> IF line[i + 1] = "(" THEN "MatchStart" ELSE "MatchEnd",
            matchname |-> "phrasingslur"]>> \o tokenize(line, i + 2)
    ELSE <<Token1(line[i], i - 1)>> \o tokenize(line, i + 1)

tokens(t, n) == tokenize(blockText(t, n), 1)

\* ------------------------------------------------------------- BoundLinks

\* Order of the (line, column) keys in sorted(links.items()).
KeyLess(a, b) == a[1] < b[1] \/ (a[1] = b[1] /\ a[2] < b[2])

\* sorted(links.items()): the keys of the set S in ascending order.
RECURSIVE sorted(_)
sorted(S) ==
    IF S = {} THEN <<>>
    ELSE LET m == CHOOSE x \in S : \A y \in S \ {x} : KeyLess(x, y)
         IN  <<m>> \o sorted(S \ {m})

\* A variant of keyIsBound that takes the line of a key for the number of
\* its block, to see that the count of the cursors depends on the test.
keyIsBoundOffByOne(t, pos) == isValid(t, pos[1])

\* The test of BoundLinks.__init__ that a key gets a cursor: the block of
\* its line exists.
keyIsBound(t, pos) == isValid(t, pos[1] - 1)

\* The position of the cursor BoundLinks.__init__ makes for a key.
keyPosition(t, pos) == setPosition(t, blockPosition(t, pos[1] - 1) + pos[2])

\* A variant of bindLoop that appends the destinations of every key, also
\* of a key that gets no cursor.
RECURSIVE bindLoopEveryDestination(_, _, _, _)
bindLoopEveryDestination(t, lnk, ks, acc) ==
    IF ks = <<>> THEN acc
    ELSE LET pos == Head(ks)
             c   == Len(acc.position) + 1
         IN  IF keyIsBound(t, pos)
             THEN bindLoopEveryDestination(t, lnk, Tail(ks),
                     [acc EXCEPT !.cursor_dict = @ @@ (pos :> c),
                                 !.position = Append(@, keyPosition(t, pos)),
                                 !.cursors = Append(@, c),
                                 !.destinations = Append(@, lnk[pos])])
             ELSE bindLoopEveryDestination(t, lnk, Tail(ks),
                     [acc EXCEPT !.destinations = Append(@, lnk[pos])])

\* The loop of BoundLinks.__init__ over the keys ks (in order), from the
\* lists built so far.  A QTextCursor is its number in order of creation;
\* position[c] is where cursor c is now.
RECURSIVE bindLoop(_, _, _, _)
bindLoop(t, lnk, ks, acc) ==
    IF ks = <<>> THEN acc
    ELSE LET pos == Head(ks)
             c   == Len(acc.position) + 1
         IN  IF keyIsBound(t, pos)
             THEN bindLoop(t, lnk, Tail(ks),
                     [acc EXCEPT !.cursor_dict = @ @@ (pos :> c),
                                 !.position = Append(@, keyPosition(t, pos)),
                                 !.cursors = Append(@, c),
                                 !.destinations = Append(@, lnk[pos])])
             ELSE bindLoop(t, lnk, Tail(ks), acc)

\* BoundLinks(doc, links): doc is the document's name, t its text.
BoundLinksInit(doc, t, lnk) ==
    bindLoop(t, lnk, sorted(DOMAIN lnk),
        [document |-> doc, cursor_dict |-> <<>>, position |-> <<>>,
         cursors |-> <<>>, destinations |-> <<>>])

\* cursors[i].position(), i a 0-based index of the list _cursors.
cursorPos(b, i) == b.position[b.cursors[i + 1]]

\* BoundLinks.cursor(line, column): the cursor of the key, or the KeyError
\* of the dictionary lookup.
boundCursor(b, key) ==
    IF key \in DOMAIN b.cursor_dict
    THEN [tag |-> "cursor", cursor |-> b.cursor_dict[key]]
    ELSE [tag |-> "KeyError"]

\* findlink(pos) of indices: the binary search in the list of cursors.
RECURSIVE bsearch(_, _, _, _)
bsearch(b, pos, lo, hi) ==
    IF lo < hi
    THEN LET mid == (lo + hi) \div 2
         IN  IF pos < cursorPos(b, mid)
             THEN bsearch(b, pos, lo, mid)
             ELSE bsearch(b, pos, mid + 1, hi)
    ELSE lo - 1

findlink(b, pos) == bsearch(b, pos, 0, Len(b.cursors))

\* The names of the pairs whose end token indices resolves.
EndNames == {"slur", "phrasingslur", "beam"}

\* tokens.backward() after an end token: the search for the opening token,
\* from token index i (0-based) of block n downwards and on through the
\* previous blocks.  Yields the block and column of the opening token.
RECURSIVE backwardNested(_, _, _, _, _)
backwardNested(t, n, i, nest, name) ==
    IF i < 0
    THEN IF n = 0 THEN [found |-> FALSE]
         ELSE backwardNested(t, n - 1, Len(tokens(t, n - 1)) - 1, nest, name)
    ELSE LET token == tokens(t, n)[i + 1]
         IN  IF token.kind = "MatchStart" /\ token.matchname = name
             THEN IF nest - 1 = 0
                  THEN [found |-> TRUE, block |-> n, pos |-> token.pos]
                  ELSE backwardNested(t, n, i - 1, nest - 1, name)
             ELSE IF token.kind = "MatchEnd" /\ token.matchname = name
             THEN backwardNested(t, n, i - 1, nest + 1, name)
             ELSE backwardNested(t, n, i - 1, nest, name)

\* tokens.backward(False) in the block n of the cursor, from token index i
\* (0-based) downwards: the loop of indices over the tokens of the line.
RECURSIVE backwardLine(_, _, _, _, _)
backwardLine(t, n, i, prevcol, col) ==
    IF i < 0 THEN [found |-> FALSE]
    ELSE LET token == tokens(t, n)[i + 1]
         IN  IF token.pos <= prevcol THEN [found |-> FALSE]
             ELSE IF token.pos <= col
                     /\ token.kind = "MatchEnd" /\ token.matchname \in EndNames
             THEN backwardNested(t, n, i - 1, 1, token.matchname)
             ELSE backwardLine(t, n, i - 1, prevcol, col)

\* The results of indices.
Slice(start, stop) == [tag |-> "slice", start |-> start, stop |-> stop]
None == [tag |-> "None"]
False == [tag |-> "False"]

\* A variant of indicesSelection without the test start <= end.
indicesSelectionUnchecked(b, selectionStart, selectionEnd) ==
    LET end == findlink(b, selectionEnd - 1)
    IN  IF end >= 0
        THEN LET start0 == findlink(b, selectionStart)
                 start == IF start0 < 0 \/ cursorPos(b, start0) < selectionStart
                          THEN start0 + 1 ELSE start0
             IN  Slice(start, end + 1)
        ELSE False

\* indices(cursor) for a cursor with a selection.
indicesSelection(b, selectionStart, selectionEnd) ==
    LET end == findlink(b, selectionEnd - 1)
    IN  IF end >= 0
        THEN LET start0 == findlink(b, selectionStart)
                 start == IF start0 < 0 \/ cursorPos(b, start0) < selectionStart
                          THEN start0 + 1 ELSE start0
             IN  IF start <= end THEN Slice(start, end + 1) ELSE False
        ELSE False

\* Variants of notFound, to see that the properties of the result of
\* indices tell them from notFound: the result is False whatever the block
\* of the cursor found, or it is None.
notFoundClear(b, t, p, index) == False

notFoundIndeterminate(b, t, p, index) == None

\* The end of indices when no opening token was found: the cursor found
\* by findlink(cursor.position()), at index, is highlighted when it is in
\* the block of the cursor at p, else the result is False.
notFound(b, t, p, index) ==
    IF blockNumber(t, cursorPos(b, index)) # blockNumber(t, p)
    THEN False
    ELSE Slice(index, index + 1)

\* A variant of foundLink that takes only a cursor that is at the opening
\* token.
foundLinkExact(b, t, block, pos) ==
    LET index == findlink(b, blockPosition(t, block) + pos)
    IN  IF index < 0
           \/ cursorPos(b, index) # blockPosition(t, block) + pos
        THEN None
        ELSE Slice(index, index + 1)

\* The end of indices when the opening token was found, at column pos of
\* block: the cursor found by findlink for the position of the token is
\* highlighted when it is in the block of the token, else the result is
\* None.
foundLink(b, t, block, pos) ==
    LET index == findlink(b, blockPosition(t, block) + pos)
    IN  IF index < 0
           \/ blockNumber(t, cursorPos(b, index)) # block
        THEN None
        ELSE Slice(index, index + 1)

\* indices(cursor) for a cursor without selection at position p.
indicesPoint(b, t, p) ==
    LET index == findlink(b, p)
    IN  IF index < 0 THEN None
        ELSE LET cur2 == cursorPos(b, index)
                 n == blockNumber(t, p)
             IN  IF cur2 < p
                 THEN LET prevcol == IF blockNumber(t, cur2) = n
                                     THEN cur2 - blockPosition(t, blockNumber(t, cur2))
                                     ELSE -1
                          col == p - blockPosition(t, n)
                          r == backwardLine(t, n, Len(tokens(t, n)) - 1, prevcol, col)
                      IN  IF r.found
                          THEN foundLink(b, t, r.block, r.pos)
                          ELSE notFound(b, t, p, index)
                 ELSE Slice(index, index + 1)

\* BoundLinks.indices(cursor): cursor has an anchor and a position.
indices(b, t, cursor) ==
    IF cursor.anchor # cursor.position
    THEN indicesSelection(b,
            IF cursor.anchor < cursor.position THEN cursor.anchor ELSE cursor.position,
            IF cursor.anchor < cursor.position THEN cursor.position ELSE cursor.anchor)
    ELSE indicesPoint(b, t, cursor.position)

\* ---------------------------------------------------------------- inputs

\* The text documents of the application and the local file of each one's
\* url: d1 and d2 are two documents of the same file.
Docs == {"d1", "d2"}
url == [d \in Docs |-> "a.ly"]

\* The texts a document starts with: one or two lines.
Documents ==
    { <<>>,
      <<"n", ")">>,
      <<"n", NL, ")">>,
      <<"(", "n", ")">>,
      <<"(", "n", NL, ")">>,
      <<"(", "(", ")", ")">>,
      <<"(", "[", ")", "n">>,
      <<"\\", "(", "\\", ")">>,
      <<NL, "n", "(", ")">> }

\* The characters an edit inserts.
EditChars == {"n", ")", NL}

\* The lines of Documents: keys of these lines get a cursor in a document
\* of two lines, keys of line 2 get none in a document of one line.
KeyLines == {1, 2}

\* The keys (line, column) of the link tables.
KeySpace == KeyLines \X (0..MaxCol)

\* The sets of at most n keys out of keys.
RECURSIVE KeySetsUpTo(_, _)
KeySetsUpTo(keys, n) ==
    IF n = 0 THEN {{}}
    ELSE LET S == KeySetsUpTo(keys, n - 1)
         IN  S \cup {s \cup {k} : s \in S, k \in keys}

\* The destinations [(pageNum, linkArea), ...] of a key: two links of
\* page 0 and 1 point to a key of column 0, one link of page 0 to any other.
DestOf(k) ==
    IF k[2] = 0 THEN << <<0, k>>, <<1, k>> >> ELSE << <<0, k>> >>

\* The entries _links[filename] a file may have: at least one key.
LinkTables(keys) ==
    {[k \in K |-> DestOf(k)] : K \in KeySetsUpTo(keys, MaxKeys) \ {{}}}

\* ----------------------------------------------------------------- state

VARIABLES
    scratch,    \* scratch[d]: scratchdir.scratchdir(d).path(), the path of
                \*   the scratch directory of document d, "none" without one
    text,       \* text[d]: the characters of text document d
    status,     \* status[d]: "none" (no such document), "unloaded",
                \*   "alive" (loaded) or "destroyed" (collected)
    links,      \* Links._links: file name -> (key -> destinations)
    docs,       \* Links._docs: file name -> number of its BoundLinks in bl,
                \*   0 when the weak dictionary has no entry
    instances,  \* BoundLinks._bound_links_instances
    bl,         \* the BoundLinks objects, in order of creation
    ret,        \* the last call of a query and its result
    edits       \* edits made so far

VARIABLES
    pages,      \* pages[p]: the pages of Poppler document p, each the list
                \*   of its links
    pstatus,    \* pstatus[p]: "alive" or "destroyed" (collected)
    cache,      \* _cache: Poppler document -> number of its Links object
                \*   in built, 0 when the weak dictionary has no entry
    built,      \* the Links objects constructed by links(document), in
                \*   order of creation
    returned,   \* returned[p]: the Links objects links(p) has returned
    lock,       \* lock[p]: who holds the lock of Poppler document p:
                \*   "none", "Links" (Links.__init__) or "renderer"
    pc,         \* where Links.__init__ is: "idle" (not called), "scan",
                \*   "bind" (after the scan), "done" (returned) or "cached"
                \*   (links(document) has put the object in the cache)
    num,        \* the page the scan of Links.__init__ reads next
    document    \* the Poppler document of the last call of Links.__init__,
                \*   "none" before the first

\* The variables of the Poppler documents and of Links.__init__.
pvars == <<pages, pstatus, cache, built, returned, lock, pc, num, document>>

vars == <<scratch, text, status, links, docs, instances, bl, ret, edits, pvars>>

NoCall == [op |-> "none", bound |-> 0, arg |-> <<>>, result |-> None]

InList(x, seq) == \E i \in 1..Len(seq) : seq[i] = x

\* What the WeakValueDictionary _docs keeps when the list inst holds the
\* only strong references to the BoundLinks objects.
weakValues(d, inst) ==
    [f \in DOMAIN d |-> IF InList(d[f], inst) THEN d[f] ELSE 0]

\* A variant of remove that leaves the list as it is, to see that the
\* lifetime of the bindings depends on remove.
removeNothing(inst, b) == inst

\* A variant of remove that takes the newest object off the list, whatever
\* object the document of the weak reference belonged to.
removeNewest(inst, b) == SubSeq(inst, 1, Len(inst) - 1)

\* BoundLinks.remove(wr) of object b: _bound_links_instances.remove(self)
remove(inst, b) == SelectSeq(inst, LAMBDA x : x # b)

\* Links.bind(filename, doc)
bind(filename, d) ==
    /\ bl' = Append(bl, BoundLinksInit(d, text[d], links[filename]))
    /\ instances' = Append(instances, Len(bl) + 1)
    /\ docs' = weakValues((filename :> Len(bl) + 1) @@ docs, instances')

\* A variant of slotDocumentLoaded that binds only a file that has no
\* binding, to see what the slot does to a file that is bound.
slotDocumentLoadedIfUnbound(d) ==
    IF url[d] \in DOMAIN links
       /\ ~(url[d] \in DOMAIN docs /\ docs[url[d]] # 0)
    THEN bind(url[d], d)
    ELSE UNCHANGED <<bl, instances, docs>>

\* Links.slotDocumentLoaded(doc)
slotDocumentLoaded(d) ==
    IF url[d] \in DOMAIN links
    THEN bind(url[d], d)
    ELSE UNCHANGED <<bl, instances, docs>>

\* The application loads document d and emits app.documentLoaded, which
\* Links.__init__ connects to slotDocumentLoaded when it ends.
documentLoaded(d) ==
    /\ status[d] = "unloaded"
    /\ status' = [status EXCEPT ![d] = "alive"]
    /\ IF pc \in {"done", "cached"}
       THEN slotDocumentLoaded(d)
       ELSE UNCHANGED <<bl, instances, docs>>

\* A document is loaded (the user opens it).
LoadDocument(d) ==
    /\ ret.op = "none"
    /\ pc \notin {"scan", "bind"}
    /\ documentLoaded(d)
    /\ UNCHANGED <<scratch, text, links, ret, edits, pvars>>

\* The cursors of every BoundLinks of document d after one character is
\* inserted at p (insert) or the character at p is removed.
adjusted(d, p, insert) ==
    [i \in 1..Len(bl) |->
        IF InList(i, instances) /\ bl[i].document = d
        THEN [bl[i] EXCEPT !.position =
                 [c \in 1..Len(bl[i].position) |->
                     IF insert THEN adjustInsert(bl[i].position[c], p)
                     ELSE adjustRemove(bl[i].position[c], p)]]
        ELSE bl[i]]

\* The user inserts character ch at position p of document d.
InsertText(d, p, ch) ==
    /\ status[d] = "alive"
    /\ ret.op = "none"
    /\ edits < MaxEdits
    /\ text' = [text EXCEPT ![d] = insertAt(@, p, ch)]
    /\ bl' = adjusted(d, p, TRUE)
    /\ edits' = edits + 1
    /\ UNCHANGED <<scratch, status, links, docs, instances, ret, pvars>>

\* The user removes the character at position p of document d.
RemoveText(d, p) ==
    /\ status[d] = "alive"
    /\ ret.op = "none"
    /\ edits < MaxEdits
    /\ text' = [text EXCEPT ![d] = removeAt(@, p)]
    /\ bl' = adjusted(d, p, FALSE)
    /\ edits' = edits + 1
    /\ UNCHANGED <<scratch, status, links, docs, instances, ret, pvars>>

\* BoundLinks.indices(cursor) on the BoundLinks of file f, for a cursor of
\* its document with anchor a and position p.  The call changes nothing, so
\* a behaviour ends with the one query it makes.
Indices(f, a, p) ==
    /\ ret.op = "none"
    /\ docs[f] # 0
    /\ a \in 0..Len(text[bl[docs[f]].document])
    /\ p \in 0..Len(text[bl[docs[f]].document])
    /\ ret' = [op |-> "indices", bound |-> docs[f],
               arg |-> [anchor |-> a, position |-> p],
               result |-> indices(bl[docs[f]], text[bl[docs[f]].document],
                                  [anchor |-> a, position |-> p])]
    /\ UNCHANGED <<scratch, text, status, links, docs, instances, bl, edits, pvars>>

\* BoundLinks.cursor(line, column) on the BoundLinks of file f.
Cursor(f, key) ==
    /\ ret.op = "none"
    /\ docs[f] # 0
    /\ ret' = [op |-> "cursor", bound |-> docs[f], arg |-> key,
               result |-> boundCursor(bl[docs[f]], key)]
    /\ UNCHANGED <<scratch, text, status, links, docs, instances, bl, edits, pvars>>

\* The Poppler documents.
Popplers == {"p1", "p2", "p3"}

\* A link of a page: browse is whether it is a Poppler.LinkBrowse.
Link(browse, u, area) == [browse |-> browse, url |-> u, area |-> area]

\* The url textedit://<path>:<line>:<column>:0 of key k of file path.
TexteditUrl(path, k) ==
    [scheme |-> "textedit", path |-> path, nums |-> <<k[1], k[2], 0>>]

\* The pages of a Poppler document whose links to file f are those of
\* table tbl: page 0 has a link to each key, page 1 one more to each key
\* of column 0, as DestOf says.
PagesFor(f, tbl) ==
    LET ks == sorted(DOMAIN tbl)
        page0 == [i \in 1..Len(ks) |-> Link(TRUE, TexteditUrl(f, ks[i]), ks[i])]
    IN  <<page0, SelectSeq(page0, LAMBDA l : l.area[2] = 0)>>

\* Poppler document p1 has the pages rendered from file f with table tbl,
\* and its Links object is constructed, not through the cache.
PopplerInit(f, tbl) ==
    /\ pages = [p \in Popplers |-> IF p = "p1" THEN PagesFor(f, tbl) ELSE <<>>]
    /\ pstatus = [p \in Popplers |-> "alive"]
    /\ cache = [p \in Popplers |-> 0]
    /\ built = <<>>
    /\ returned = [p \in Popplers |-> <<>>]
    /\ lock = [p \in Popplers |-> "none"]
    /\ pc = "done"
    /\ num = 2
    /\ document = "p1"
    /\ scratch = [d \in Docs |-> "none"]

\* One document of file a.ly, not yet loaded, and the link table of a
\* Poppler document that has links to a.ly.
Init ==
    /\ \E t \in Documents : text = [d \in Docs |-> IF d = "d1" THEN t ELSE <<>>]
    /\ status = [d \in Docs |-> IF d = "d1" THEN "unloaded" ELSE "none"]
    /\ \E tbl \in LinkTables(KeySpace) :
          links = ("a.ly" :> tbl) /\ PopplerInit("a.ly", tbl)
    /\ docs = ("a.ly" :> 0)
    /\ instances = <<>>
    /\ bl = <<>>
    /\ ret = NoCall
    /\ edits = 0

Load == \E d \in Docs : LoadDocument(d)

Insert == \E d \in Docs : \E p \in 0..Len(text[d]) : \E ch \in EditChars :
             InsertText(d, p, ch)

Remove == \E d \in Docs : \E p \in 0..(Len(text[d]) - 1) : RemoveText(d, p)

\* The positions of the document of the BoundLinks of file f.
Positions(f) == 0..Len(text[bl[docs[f]].document])

PointQuery ==
    \E f \in DOMAIN docs : docs[f] # 0 /\ \E p \in Positions(f) : Indices(f, p, p)

SelectionQuery ==
    \E f \in DOMAIN docs :
        docs[f] # 0 /\ \E a, p \in Positions(f) : a # p /\ Indices(f, a, p)

CursorQuery == \E f \in DOMAIN docs : \E key \in KeySpace : Cursor(f, key)

\* Point queries: a document is loaded and bound, edited and queried with
\* a cursor without selection.
Next == Load \/ Insert \/ Remove \/ PointQuery

Spec == Init /\ [][Next]_vars

\* Selection queries.
NextSelection == Load \/ Insert \/ Remove \/ SelectionQuery

SpecSelection == Init /\ [][NextSelection]_vars

\* Exact lookups.
NextCursor == Load \/ Insert \/ Remove \/ CursorQuery

SpecCursor == Init /\ [][NextCursor]_vars

\* Every query: a document is loaded and bound, edited and queried with a
\* cursor without selection, a cursor with a selection or a key.
NextQueries ==
    Load \/ Insert \/ Remove \/ PointQuery \/ SelectionQuery \/ CursorQuery

\* The texts of the documents that get every query: of one line and of
\* two lines, with end tokens with and without a start token.
QueryDocuments ==
    { <<"n", ")">>,
      <<"(", "n", NL, ")">> }

InitQueries ==
    /\ \E t \in QueryDocuments :
          text = [d \in Docs |-> IF d = "d1" THEN t ELSE <<>>]
    /\ status = [d \in Docs |-> IF d = "d1" THEN "unloaded" ELSE "none"]
    /\ \E tbl \in LinkTables(KeySpace) :
          links = ("a.ly" :> tbl) /\ PopplerInit("a.ly", tbl)
    /\ docs = ("a.ly" :> 0)
    /\ instances = <<>>
    /\ bl = <<>>
    /\ ret = NoCall
    /\ edits = 0

SpecQueries == InitQueries /\ [][NextQueries]_vars

\* ------------------------------------------------------------- the registry

\* A variant of textedit_match that also takes a url that ends after the
\* column, to see that the keys of the table depend on the last group.
textedit_matchOptionalTail(u) ==
    u.scheme = "textedit" /\ Len(u.nums) \in {2, 3}

\* textedit urls: the scheme, the percent-encoded path and the numbers that
\* follow it, each after a colon.
textedit_match(u) == u.scheme = "textedit" /\ Len(u.nums) = 3

\* QUrl.fromPercentEncoding
fromPercentEncoding(path) == IF path = "a%2Ely" THEN "a.ly" ELSE path

readfilename(u) == fromPercentEncoding(u.path)

readurl(u) == <<readfilename(u), u.nums[1], u.nums[2]>>

\* _docs.get(filename)
get(d, filename) == IF filename \in DOMAIN d THEN d[filename] ELSE 0

\* The BoundLinks objects of document d that are in the list inst.
boundTo(inst, d) == {b \in 1..Len(bl) : InList(b, inst) /\ bl[b].document = d}

\* The weak references to document d call remove of each BoundLinks of d.
RECURSIVE removeEach(_, _)
removeEach(inst, B) ==
    IF B = {} THEN inst
    ELSE LET b == CHOOSE x \in B : TRUE
         IN  removeEach(remove(inst, b), B \ {b})

\* Document d is destroyed (closed and collected).
DestroyDocument(d) ==
    /\ ret.op = "none"
    /\ status[d] = "alive"
    /\ status' = [status EXCEPT ![d] = "destroyed"]
    /\ instances' = removeEach(instances, boundTo(instances, d))
    /\ docs' = weakValues(docs, instances')
    /\ UNCHANGED <<scratch, text, links, bl, ret, edits, pvars>>

\* app.openUrl(url of filename): a document of the file that is not loaded
\* yet is loaded, or nothing is (the file cannot be read, or a document of
\* it is open already).
openUrl(filename) ==
    \/ UNCHANGED <<status, bl, instances, docs>>
    \/ \E d \in Docs : url[d] = filename /\ documentLoaded(d)

\* A call of Links.cursor: bound is the BoundLinks it asks for the cursor
\* (0: none), before is what _docs.get gave first and requests is the
\* number of calls of app.openUrl it made.
LinksCursorCall(u, load, before, requests, bound, result) ==
    [op |-> "Links.cursor", bound |-> bound, before |-> before,
     requests |-> requests,
     arg |-> [link |-> u, load |-> load], result |-> result]

\* Links.cursor(link, load)
LinksCursor(u, load) ==
    /\ ret.op = "none"
    /\ IF ~textedit_match(u)
       THEN /\ ret' = LinksCursorCall(u, load, 0, 0, 0, None)
            /\ UNCHANGED <<status, bl, instances, docs>>
       ELSE LET filename == readurl(u)[1]
                key == <<readurl(u)[2], readurl(u)[3]>>
                bound == get(docs, filename)
            IN  IF bound # 0
                THEN /\ ret' = LinksCursorCall(u, load, bound, 0, bound,
                                   boundCursor(bl[bound], key))
                     /\ UNCHANGED <<status, bl, instances, docs>>
                ELSE IF load
                THEN /\ openUrl(filename)
                     /\ ret' = LinksCursorCall(u, load, 0, 1,
                                   get(docs', filename),
                                   IF get(docs', filename) # 0
                                   THEN boundCursor(bl'[get(docs', filename)], key)
                                   ELSE None)
                ELSE /\ ret' = LinksCursorCall(u, load, 0, 0, 0, None)
                     /\ UNCHANGED <<status, bl, instances, docs>>
    /\ UNCHANGED <<scratch, text, links, edits, pvars>>

\* The texts of the documents of the registry.
RegDocuments == { <<"n">>, <<"n", NL, "n">> }

\* Keys of line 0 and of the lines of RegDocuments: line 2 is past the end
\* of the document of one line.
RegKeySpace == {0, 1, 2} \X (0..MaxCol)

\* The urls of the links that are clicked: links to a.ly, a link to a file
\* with no links bound, a url without the number after the column and a
\* url of another scheme.
Urls ==
    {[scheme |-> "textedit", path |-> "a%2Ely", nums |-> <<k[1], k[2], 0>>] :
        k \in RegKeySpace}
    \cup {[scheme |-> "textedit", path |-> "b.ly", nums |-> <<1, 0, 0>>],
          [scheme |-> "textedit", path |-> "a.ly", nums |-> <<1, 0>>],
          [scheme |-> "http", path |-> "a.ly", nums |-> <<1, 0, 0>>]}

\* Two documents of file a.ly, none loaded, and a link table with links
\* to a.ly.
InitReg ==
    /\ text \in [Docs -> RegDocuments]
    /\ status = [d \in Docs |-> "unloaded"]
    /\ \E tbl \in LinkTables(RegKeySpace) :
          links = ("a.ly" :> tbl) /\ PopplerInit("a.ly", tbl)
    /\ docs = ("a.ly" :> 0)
    /\ instances = <<>>
    /\ bl = <<>>
    /\ ret = NoCall
    /\ edits = 0

Destroy == \E d \in Docs : DestroyDocument(d)

Resolve == \E u \in Urls : \E load \in BOOLEAN : LinksCursor(u, load)

NextReg == Load \/ Destroy \/ Resolve

SpecReg == InitReg /\ [][NextReg]_vars

\* The link tables of the documents that are bound in turn: a key of the
\* first line, alone or with a key of the second line.
RebindTables ==
    {[k \in K |-> DestOf(k)] : K \in {{<<1, 0>>}, {<<1, 0>>, <<2, 1>>}}}

\* The links that are clicked then: to the keys of a.ly and to a file
\* that is not bound.
RebindUrls ==
    { TexteditUrl("a%2Ely", <<1, 0>>),
      TexteditUrl("a%2Ely", <<2, 1>>),
      TexteditUrl("b.ly", <<1, 0>>) }

\* Two documents of file a.ly, none loaded, and a link table with links
\* to a.ly.
InitRebind ==
    /\ text \in [Docs -> RegDocuments]
    /\ status = [d \in Docs |-> "unloaded"]
    /\ \E tbl \in RebindTables :
          links = ("a.ly" :> tbl) /\ PopplerInit("a.ly", tbl)
    /\ docs = ("a.ly" :> 0)
    /\ instances = <<>>
    /\ bl = <<>>
    /\ ret = NoCall
    /\ edits = 0

Click == \E u \in RebindUrls : \E load \in BOOLEAN : LinksCursor(u, load)

\* Rebinding: documents of a.ly are loaded, edited and destroyed, and
\* links are clicked.
NextRebind == Load \/ Destroy \/ Insert \/ Remove \/ Click

SpecRebind == InitRebind /\ [][NextRebind]_vars

\* The files the links of the Poppler document may point to: the file of
\* the documents, or another file.
RegFiles == {"a.ly", "b.ly"}

\* Two documents of file a.ly, none loaded, and a link table with links
\* to one file, which is a.ly or not.
InitOpen ==
    /\ text \in [Docs -> RegDocuments]
    /\ status = [d \in Docs |-> "unloaded"]
    /\ \E f \in RegFiles : \E tbl \in LinkTables(RegKeySpace) :
          links = (f :> tbl) /\ docs = (f :> 0) /\ PopplerInit(f, tbl)
    /\ instances = <<>>
    /\ bl = <<>>
    /\ ret = NoCall
    /\ edits = 0

\* Documents are loaded and destroyed.
NextOpen == Load \/ Destroy

SpecOpen == InitOpen /\ [][NextOpen]_vars

\* ----------------------------------------------- the link table (SpecScan)

\* A variant of record that keeps one destination only once.
recordOnce(l, filename, key, dest) ==
    LET lf == IF filename \in DOMAIN l THEN l[filename] ELSE <<>>
        old == IF key \in DOMAIN lf THEN lf[key] ELSE <<>>
    IN  IF InList(dest, old) THEN l
        ELSE (filename :> ((key :> Append(old, dest)) @@ lf)) @@ l

\* self._links.setdefault(filename, {}).setdefault(key, []).append(dest)
record(l, filename, key, dest) ==
    LET lf == IF filename \in DOMAIN l THEN l[filename] ELSE <<>>
        old == IF key \in DOMAIN lf THEN lf[key] ELSE <<>>
    IN  (filename :> ((key :> Append(old, dest)) @@ lf)) @@ l

\* The loop of Links.__init__ over page.links() of page num, from link i
\* (1-based) on, with the dictionary l built so far.
RECURSIVE scanPage(_, _, _, _)
scanPage(page, n, i, l) ==
    IF i > Len(page) THEN l
    ELSE LET link == page[i]
         IN  IF link.browse /\ textedit_match(link.url)
             THEN scanPage(page, n, i + 1,
                      record(l, readurl(link.url)[1],
                             <<readurl(link.url)[2], readurl(link.url)[3]>>,
                             <<n, link.area>>))
             ELSE scanPage(page, n, i + 1, l)

\* The loop of Links.__init__ over the pages of doc, from page n (0-based).
RECURSIVE scanPages(_, _, _)
scanPages(doc, n, l) ==
    IF n >= Len(doc) THEN l
    ELSE scanPages(doc, n + 1, scanPage(doc[n + 1], n, 1, l))

\* The documents of the application, in the order of app.documents; the
\* documents that are open are those that are alive.
documents == <<"d1", "d2">>

\* The orders in which a loop may go through the keys of a dictionary
\* with the keys S: the order of a dict is that of the build.
Orders(S) ==
    {s \in [1..Cardinality(S) -> S] :
        \A i, j \in 1..Cardinality(S) : i # j => s[i] # s[j]}

\* The loop of Links.__init__ over app.documents for one file name of the
\* table tbl: each open document ds whose scratch directory or whose url
\* is the file name is bound to it; st has the objects, the list of
\* instances and _docs.
RECURSIVE bindFile(_, _, _, _)
bindFile(filename, ds, tbl, st) ==
    IF ds = <<>> THEN st
    ELSE LET d == Head(ds)
         IN  IF status[d] = "alive"
                /\ (scratch[d] = filename \/ url[d] = filename)
             THEN bindFile(filename, Tail(ds), tbl,
                     [bl |-> Append(st.bl, BoundLinksInit(d, text[d], tbl[filename])),
                      instances |-> Append(st.instances, Len(st.bl) + 1),
                      docs |-> weakValues((filename :> Len(st.bl) + 1) @@ st.docs,
                                          Append(st.instances, Len(st.bl) + 1))])
             ELSE bindFile(filename, Tail(ds), tbl, st)

\* The loop of Links.__init__ over the file names fs of the table tbl, and
\* for each over the documents ds.
RECURSIVE bindOpen(_, _, _, _)
bindOpen(fs, ds, tbl, st) ==
    IF fs = <<>> THEN st
    ELSE bindOpen(Tail(fs), ds, tbl, bindFile(Head(fs), ds, tbl, st))

\* qpopplerview.lock(document): the lock of a Poppler document is
\* exclusive, it can be taken when nobody holds it.
lockFree(l) == l = "none"

\* A variant of Enter that starts the scan without the lock.
EnterUnlocked(p) ==
    /\ pc \in {"idle", "cached"}
    /\ pstatus[p] = "alive"
    /\ document' = p
    /\ links' = <<>>
    /\ docs' = <<>>
    /\ pc' = "scan"
    /\ num' = 0
    /\ UNCHANGED <<scratch, text, status, instances, bl, ret, edits,
                   pages, pstatus, cache, built, returned, lock>>

\* Links.__init__(document) of Poppler document p, up to the loop over
\* the pages: the empty dictionaries, and the lock of the document is
\* taken, when it is free.  No other call of the application is running.
Enter(p) ==
    /\ pc \in {"idle", "cached"}
    /\ pstatus[p] = "alive"
    /\ lockFree(lock[p])
    /\ lock' = [lock EXCEPT ![p] = "Links"]
    /\ document' = p
    /\ links' = <<>>
    /\ docs' = <<>>
    /\ pc' = "scan"
    /\ num' = 0
    /\ UNCHANGED <<scratch, text, status, instances, bl, ret, edits,
                   pages, pstatus, cache, built, returned>>

\* One turn of the loop over the pages: the links of page num are read.
ScanStep ==
    /\ pc = "scan"
    /\ num < Len(pages[document])
    /\ links' = scanPage(pages[document][num + 1], num, 1, links)
    /\ num' = num + 1
    /\ UNCHANGED <<scratch, text, status, docs, instances, bl, ret, edits,
                   pages, pstatus, cache, built, returned, lock, pc, document>>

\* The loop over the pages ends and the with block is left: the lock is
\* given back if Links.__init__ has it.
Exit ==
    /\ pc = "scan"
    /\ num >= Len(pages[document])
    /\ lock' = [lock EXCEPT ![document] = IF @ = "Links" THEN "none" ELSE @]
    /\ pc' = "bind"
    /\ UNCHANGED <<scratch, text, status, links, docs, instances, bl, ret, edits,
                   pages, pstatus, cache, built, returned, num, document>>

\* The loop that binds the open documents, in some order of the file
\* names of the table, and the connection of the slot: Links.__init__
\* returns.
BindOpenDocuments ==
    /\ pc = "bind"
    /\ \E fs \in Orders(DOMAIN links) :
          LET st == bindOpen(fs, documents, links,
                        [bl |-> bl, instances |-> instances, docs |-> docs])
          IN  bl' = st.bl /\ instances' = st.instances /\ docs' = st.docs
    /\ pc' = "done"
    /\ UNCHANGED <<scratch, text, status, links, ret, edits,
                   pages, pstatus, cache, built, returned, lock, num, document>>

\* The links of the pages: textedit links to two keys of a.ly, one spelt
\* in two ways, to another file, a textedit url that ends after the
\* column, a url of another scheme and a link that is no LinkBrowse.  The
\* area of a link tells which one it is.
ScanLinks ==
    { Link(TRUE, TexteditUrl("a%2Ely", <<1, 0>>), 1),
      Link(TRUE, TexteditUrl("a.ly", <<1, 0>>), 2),
      Link(TRUE, TexteditUrl("a%2Ely", <<2, 1>>), 3),
      Link(TRUE, TexteditUrl("b.ly", <<1, 0>>), 4),
      Link(TRUE, [scheme |-> "textedit", path |-> "a.ly", nums |-> <<1, 0>>], 5),
      Link(TRUE, [scheme |-> "http", path |-> "a.ly", nums |-> <<1, 0, 0>>], 6),
      Link(FALSE, TexteditUrl("a.ly", <<1, 0>>), 7) }

\* The lists of at most n links.
LinkSeqs(n) == UNION {[1..k -> ScanLinks] : k \in 0..n}

\* The Poppler documents of np pages with at most n links in all.
RECURSIVE PopplerDocs(_, _)
PopplerDocs(np, n) ==
    IF np = 0 THEN {<<>>}
    ELSE UNION {{<<page>> \o d : d \in PopplerDocs(np - 1, n - Len(page))} :
                    page \in LinkSeqs(n)}

\* One document of a.ly, open or not loaded yet, with or without a scratch
\* directory (whose path is b.ly), and no Links object.
OneDocument ==
    /\ text = [d \in Docs |-> IF d = "d1" THEN <<"n">> ELSE <<>>]
    /\ status \in {[d \in Docs |-> IF d = "d1" THEN st ELSE "none"] :
                      st \in {"alive", "unloaded"}}
    /\ scratch \in {[d \in Docs |-> IF d = "d1" THEN sd ELSE "none"] :
                      sd \in {"none", "b.ly"}}
    /\ links = <<>>
    /\ docs = <<>>
    /\ instances = <<>>
    /\ bl = <<>>
    /\ ret = NoCall
    /\ edits = 0

\* No Links object is constructed or in the cache, and no lock is held.
NoLinks ==
    /\ pstatus = [p \in Popplers |-> "alive"]
    /\ cache = [p \in Popplers |-> 0]
    /\ built = <<>>
    /\ returned = [p \in Popplers |-> <<>>]
    /\ lock = [p \in Popplers |-> "none"]
    /\ pc = "idle"
    /\ num = 0
    /\ document = "none"

\* A Poppler document of two pages whose Links object is not constructed
\* yet, and a document of a.ly.
InitScan ==
    /\ OneDocument
    /\ \E doc \in PopplerDocs(2, MaxLinks) :
          pages = [p \in Popplers |-> IF p = "p1" THEN doc ELSE <<>>]
    /\ NoLinks

\* Links(document) is called for p1, step by step; the document of a.ly
\* is loaded before or after the call.
NextScan == Enter("p1") \/ ScanStep \/ Exit \/ BindOpenDocuments \/ Load

SpecScan == InitScan /\ [][NextScan]_vars

\* ------------------------------------------------- the cache (SpecCache)

\* Calls of links(document) for one Poppler document.
MaxCalls == 2

\* A variant of cachePut that stores nothing.
cachePutNothing(c, p, l) == c

\* _cache[document] = l
cachePut(c, p, l) == [c EXCEPT ![p] = l]

\* links(document) of Poppler document p, when no other call of the
\* application is running: the Links object of the cache is returned, or
\* Links(document) is called.  links, docs, pc and num are those of the
\* Links object constructed last.
GetLinks(p) ==
    /\ pc \in {"idle", "cached"}
    /\ pstatus[p] = "alive"
    /\ Len(returned[p]) < MaxCalls
    /\ IF cache[p] # 0
       THEN /\ returned' = [returned EXCEPT ![p] = Append(@, cache[p])]
            /\ UNCHANGED <<scratch, text, status, links, docs, instances, bl,
                           ret, edits, pages, pstatus, cache, built, lock,
                           pc, num, document>>
       ELSE Enter(p)

\* The end of links(document) after Links(document) has returned: the new
\* Links object is put in the cache and returned.
Return ==
    /\ pc = "done"
    /\ document # "none"
    /\ built' = Append(built, [document |-> document, links |-> links])
    /\ cache' = cachePut(cache, document, Len(built) + 1)
    /\ returned' = [returned EXCEPT ![document] = Append(@, Len(built) + 1)]
    /\ pc' = "cached"
    /\ UNCHANGED <<scratch, text, status, links, docs, instances, bl, ret, edits,
                   pages, pstatus, lock, num, document>>

\* Poppler document p is destroyed (collected): the WeakKeyDictionary
\* _cache drops its entry.  The caller of links(document) holds the
\* document while the call runs.
DestroyPoppler(p) ==
    /\ pstatus[p] = "alive"
    /\ ~(document = p /\ pc \in {"scan", "bind", "done"})
    /\ pstatus' = [pstatus EXCEPT ![p] = "destroyed"]
    /\ cache' = [cache EXCEPT ![p] = 0]
    /\ UNCHANGED <<scratch, text, status, links, docs, instances, bl, ret, edits,
                   pages, built, returned, lock, pc, num, document>>

\* Poppler documents of one page: without links, with a link to a.ly and
\* with a link to a.ly and one to another file.
CacheDocs ==
    { << <<>> >>,
      << <<Link(TRUE, TexteditUrl("a%2Ely", <<1, 0>>), 1)>> >>,
      << <<Link(TRUE, TexteditUrl("a.ly", <<1, 0>>), 2),
           Link(TRUE, TexteditUrl("b.ly", <<1, 0>>), 4)>> >> }

\* Three Poppler documents, none with a Links object, and a document of
\* a.ly.
InitCache ==
    /\ OneDocument
    /\ pages \in [Popplers -> CacheDocs]
    /\ NoLinks

Get == \E p \in Popplers : GetLinks(p)

DestroyP == \E p \in Popplers : DestroyPoppler(p)

NextCache ==
    Get \/ ScanStep \/ Exit \/ BindOpenDocuments \/ Return \/ DestroyP

SpecCache == InitCache /\ [][NextCache]_vars

\* --------------------------------------------------- the lock (SpecLock)

\* The Poppler documents of the renderer: of no, one and two pages, with
\* links to a.ly and b.ly.
LockDocs ==
    { <<>>,
      << <<Link(TRUE, TexteditUrl("a%2Ely", <<1, 0>>), 1)>> >>,
      << <<Link(TRUE, TexteditUrl("a.ly", <<1, 0>>), 2)>>,
         <<Link(TRUE, TexteditUrl("b.ly", <<1, 0>>), 4)>> >>,
      << <<Link(TRUE, TexteditUrl("a%2Ely", <<2, 1>>), 3),
           Link(TRUE, TexteditUrl("a.ly", <<1, 0>>), 2)>>,
         <<Link(TRUE, TexteditUrl("a%2Ely", <<1, 0>>), 1)>> >> }

\* The renderer takes the lock of Poppler document p.
RendererLock(p) ==
    /\ lockFree(lock[p])
    /\ lock' = [lock EXCEPT ![p] = "renderer"]
    /\ UNCHANGED <<scratch, text, status, links, docs, instances, bl, ret, edits,
                   pages, pstatus, cache, built, returned, pc, num, document>>

\* The renderer, with the lock, changes Poppler document p.
RendererUpdate(p) ==
    /\ lock[p] = "renderer"
    /\ \E doc \in LockDocs : doc # pages[p] /\ pages' = [pages EXCEPT ![p] = doc]
    /\ UNCHANGED <<scratch, text, status, links, docs, instances, bl, ret, edits,
                   pstatus, cache, built, returned, lock, pc, num, document>>

\* The renderer gives the lock of Poppler document p back.
RendererUnlock(p) ==
    /\ lock[p] = "renderer"
    /\ lock' = [lock EXCEPT ![p] = "none"]
    /\ UNCHANGED <<scratch, text, status, links, docs, instances, bl, ret, edits,
                   pages, pstatus, cache, built, returned, pc, num, document>>

\* A Poppler document whose Links object is not constructed yet, a
\* renderer without the lock, and a document of a.ly.
InitLock ==
    /\ OneDocument
    /\ \E doc \in LockDocs :
          pages = [p \in Popplers |-> IF p = "p1" THEN doc ELSE <<>>]
    /\ NoLinks

NextLock ==
    \/ Enter("p1") \/ ScanStep \/ Exit \/ BindOpenDocuments
    \/ RendererLock("p1") \/ RendererUpdate("p1") \/ RendererUnlock("p1")

SpecLock == InitLock /\ [][NextLock]_vars

\* ------------------------------------------- vocabulary of the properties

\* The last call was indices(cursor) with a cursor without a selection.
PointCall == ret.op = "indices" /\ ret.arg.anchor = ret.arg.position

\* The last call was indices(cursor) with a cursor that has a selection.
SelectionCall == ret.op = "indices" /\ ret.arg.anchor # ret.arg.position

\* The BoundLinks of the last call, the text of its document and the
\* position of the cursor of the call.
qB == bl[ret.bound]
qT == text[qB.document]
qP == ret.arg.position

\* The indices of the list of cursors of b.
Idx(b) == 0..(Len(b.cursors) - 1)

\* The BoundLinks objects that are alive (in the list of instances).
Bound == {b \in 1..Len(bl) : InList(b, instances)}

\* The tokens of block n of text t, with their block and their position in
\* the document.
BlockTokens(t, n) ==
    LET tk == tokens(t, n)
        at == blockPosition(t, n)
    IN  {[block |-> n,
          abs |-> at + tk[i].pos,
          len |-> IF tk[i].matchname = "phrasingslur" THEN 2 ELSE 1,
          kind |-> tk[i].kind,
          matchname |-> tk[i].matchname] : i \in 1..Len(tk)}

\* Every token of text t.
AllTokens(t) == UNION {BlockTokens(t, n) : n \in 0..(blockCount(t) - 1)}

\* The end tokens of a slur, phrasing slur or beam among the tokens S.
Closers(S) == {k \in S : k.kind = "MatchEnd" /\ k.matchname \in EndNames}

\* The end tokens a cursor at position p rests on.
ClosersAt(t, p) ==
    {k \in Closers(BlockTokens(t, blockNumber(t, p))) :
        k.abs <= p /\ p < k.abs + k.len}

\* The counter of the search backwards from end token k, after the start
\* token o, over the tokens S: 1, plus one for each end token of the name
\* of k between o and k, minus one for each start token of that name from
\* o on.
Counter(S, o, k) ==
    1 + Cardinality({c \in S :
            c.kind = "MatchEnd" /\ c.matchname = k.matchname
            /\ o.abs < c.abs /\ c.abs < k.abs})
      - Cardinality({c \in S :
            c.kind = "MatchStart" /\ c.matchname = k.matchname
            /\ o.abs <= c.abs /\ c.abs < k.abs})

\* The start tokens before k, of the name of k, at which the counter is 0.
Balanced(t, k) ==
    LET S == AllTokens(t)
    IN  {o \in S :
            o.kind = "MatchStart" /\ o.matchname = k.matchname
            /\ o.abs < k.abs /\ Counter(S, o, k) = 0}

\* The start token that nests with end token k: the first one, going
\* backwards, at which the counter is 0 (a set of one token, or empty).
Opener(t, k) ==
    {o \in Balanced(t, k) : \A o2 \in Balanced(t, k) : o2.abs <= o.abs}

\* The indices of the cursors of b at position pos.
AnchorsAt(b, pos) == {i \in Idx(b) : cursorPos(b, i) = pos}

\* The column below which indices does not look for an end token: that of
\* the cursor at index when it is in the block of a cursor at p, else -1.
LowerBound(b, t, p, index) ==
    IF blockNumber(t, cursorPos(b, index)) = blockNumber(t, p)
    THEN cursorPos(b, index) - blockPosition(t, blockNumber(t, p))
    ELSE -1

\* No end token of a slur, phrasing slur or beam starts in the block of a
\* cursor at p above the lower bound and at or before the cursor.
NoCloserInScan(b, t, p, index) ==
    LET n == blockNumber(t, p)
        low == LowerBound(b, t, p, index)
    IN  ~ \E k \in Closers(BlockTokens(t, n)) :
            /\ k.abs - blockPosition(t, n) > low
            /\ k.abs <= p

\* No cursor of b is at end token k or between it and a cursor at p, and
\* some cursor of b is before k.
AfterNearestAnchor(b, k, p) ==
    /\ \E i \in Idx(b) : cursorPos(b, i) < k.abs
    /\ \A i \in Idx(b) : cursorPos(b, i) <= p => cursorPos(b, i) < k.abs

\* ---------------------------------------------------- point queries (Spec)

\* C4: in every binding the list of cursors is strictly increasing in
\* position (i < j implies position of cursor i < position of cursor j),
\* right after bind, for every link table and text, and after every
\* sequence of insertions and removals.
C4_AnchorsStrictlyIncreasing ==
    \A b \in Bound : \A i, j \in Idx(bl[b]) :
        i < j => cursorPos(bl[b], i) < cursorPos(bl[b], j)

\* C1: when the cursor (no selection) rests on the end token of a slur,
\* phrasing slur or beam that has no cursor of its own and lies after the
\* nearest cursor before it, and the start token that nests with it has a
\* cursor exactly at its position, indices returns slice(k, k+1) with k the
\* index of a cursor at that start token.
C1_CloserResolvesToOpener ==
    PointCall =>
        \A k \in ClosersAt(qT, qP) : \A o \in Opener(qT, k) :
            (AfterNearestAnchor(qB, k, qP) /\ AnchorsAt(qB, o.abs) # {})
            => \E i \in AnchorsAt(qB, o.abs) : ret.result = Slice(i, i + 1)

\* C9: when the position of the cursor (no selection) is the position of
\* some cursor of the binding, indices returns slice(idx, idx+1) for an
\* index idx whose cursor is at exactly that position.
C9_CaretOnAnchor ==
    (PointCall /\ AnchorsAt(qB, qP) # {})
    => \E i \in AnchorsAt(qB, qP) : ret.result = Slice(i, i + 1)

\* C2 as stated: when the cursor (no selection) rests on an end token of a
\* slur, phrasing slur or beam with no start token that nests with it,
\* indices returns False, wherever the nearest cursor before it is.
C2_UnmatchedCloserClears ==
    PointCall =>
        \A k \in ClosersAt(qT, qP) :
            (Opener(qT, k) = {} /\ AfterNearestAnchor(qB, k, qP))
            => ret.result = False

\* C2 amended: when the cursor (no selection) rests on an end token of a
\* slur, phrasing slur or beam with no start token that nests with it, and
\* the binary search finds a cursor at or before it, indices returns False
\* when that cursor is in an earlier block and slice(index, index+1) of
\* that cursor when it is in the block of the cursor.
C2_UnmatchedCloserClearsOrMatches ==
    (/\ PointCall
     /\ findlink(qB, qP) >= 0
     /\ \E k \in ClosersAt(qT, qP) : Opener(qT, k) = {})
    => ret.result =
         IF blockNumber(qT, cursorPos(qB, findlink(qB, qP))) = blockNumber(qT, qP)
         THEN Slice(findlink(qB, qP), findlink(qB, qP) + 1)
         ELSE False

\* C2 happens: the cursor rests on an end token with no start token, the
\* cursor found is in an earlier block, and the result is False.
C2_Witness ==
    /\ PointCall
    /\ \E k \in ClosersAt(qT, qP) :
          Opener(qT, k) = {} /\ AfterNearestAnchor(qB, k, qP)
    /\ findlink(qB, qP) >= 0
    /\ blockNumber(qT, cursorPos(qB, findlink(qB, qP))) < blockNumber(qT, qP)
    /\ ret.result = False

\* C8 as stated: when the cursor (no selection) is after the nearest
\* cursor before it and no end token of a slur, phrasing slur or beam
\* starts in its block above the lower bound and at or before it, indices
\* returns None.
C8_NoCloserIndeterminate ==
    (/\ PointCall
     /\ findlink(qB, qP) >= 0
     /\ cursorPos(qB, findlink(qB, qP)) < qP
     /\ NoCloserInScan(qB, qT, qP, findlink(qB, qP)))
    => ret.result = None

\* C8 amended: in that case indices returns slice(index, index+1) of the
\* cursor the binary search finds when that cursor is in the block of the
\* cursor of the call, and False when it is in an earlier block.
C8_NoCloserMatchesOrClears ==
    (/\ PointCall
     /\ findlink(qB, qP) >= 0
     /\ cursorPos(qB, findlink(qB, qP)) < qP
     /\ NoCloserInScan(qB, qT, qP, findlink(qB, qP)))
    => \/ /\ LowerBound(qB, qT, qP, findlink(qB, qP)) >= 0
          /\ ret.result = Slice(findlink(qB, qP), findlink(qB, qP) + 1)
       \/ /\ LowerBound(qB, qT, qP, findlink(qB, qP)) = -1
          /\ ret.result = False

\* C8 happens: no end token is met, the cursor found is in the block of
\* the cursor of the call and before it, and the result is its slice.
C8_Witness ==
    /\ PointCall
    /\ findlink(qB, qP) >= 0
    /\ cursorPos(qB, findlink(qB, qP)) < qP
    /\ NoCloserInScan(qB, qT, qP, findlink(qB, qP))
    /\ LowerBound(qB, qT, qP, findlink(qB, qP)) >= 0
    /\ ret.result = Slice(findlink(qB, qP), findlink(qB, qP) + 1)

\* The end tokens the loop of indices over the tokens of the block of a
\* cursor at p may take: those above the lower bound that start at or
\* before the cursor.
ClosersInScan(b, t, p) ==
    LET n == blockNumber(t, p)
        low == LowerBound(b, t, p, findlink(b, p))
    IN  {k \in Closers(BlockTokens(t, n)) :
            k.abs - blockPosition(t, n) > low /\ k.abs <= p}

\* The start token indices resolves for a cursor at p that is after the
\* cursor found: the one that nests with the last end token the loop may
\* take (a set of one token, or empty).
ResolvedOpener(b, t, p) ==
    LET S == ClosersInScan(b, t, p)
    IN  IF findlink(b, p) < 0 \/ cursorPos(b, findlink(b, p)) >= p \/ S = {}
        THEN {}
        ELSE Opener(t, CHOOSE k \in S : \A k2 \in S : k2.abs <= k.abs)

\* C18 as stated: when indices resolves a start token for the cursor of
\* the call (no selection), it returns a slice only if some cursor of the
\* binding is exactly at the start token, and then the slice of such a
\* cursor; with no cursor exactly there it returns no slice, also when
\* another cursor is before the start token in its block.
C18_ExactOpenerLookup ==
    PointCall =>
        \A o \in ResolvedOpener(qB, qT, qP) :
            IF AnchorsAt(qB, o.abs) # {}
            THEN \E i \in AnchorsAt(qB, o.abs) : ret.result = Slice(i, i + 1)
            ELSE ret.result.tag # "slice"

\* C18 amended: when indices resolves a start token for the cursor of the
\* call (no selection), it returns the slice of the cursor the binary
\* search finds for the position of the start token, which is at or before
\* the token, when that cursor is in the block of the token; it returns
\* None when the search finds no cursor or one of another block.
C18_OpenerLookupInBlock ==
    PointCall =>
        \A o \in ResolvedOpener(qB, qT, qP) :
            LET i == findlink(qB, o.abs)
            IN  /\ i >= 0 => cursorPos(qB, i) <= o.abs
                /\ ret.result =
                     IF i >= 0 /\ blockNumber(qT, cursorPos(qB, i)) = o.block
                     THEN Slice(i, i + 1)
                     ELSE None

\* C18 happens: a start token is resolved, no cursor is at it, a cursor is
\* before it in its block, and the result is the slice of that cursor.
C18_Witness ==
    /\ PointCall
    /\ \E o \in ResolvedOpener(qB, qT, qP) :
          /\ AnchorsAt(qB, o.abs) = {}
          /\ findlink(qB, o.abs) >= 0
          /\ cursorPos(qB, findlink(qB, o.abs)) < o.abs
          /\ ret.result = Slice(findlink(qB, o.abs), findlink(qB, o.abs) + 1)

\* ------------------------------------- selection queries (SpecSelection)

Least(S) == CHOOSE x \in S : \A y \in S : x <= y

Greatest(S) == CHOOSE x \in S : \A y \in S : y <= x

\* The start and the end of the selection of the last call.
qStart == Least({ret.arg.anchor, ret.arg.position})
qEnd == Greatest({ret.arg.anchor, ret.arg.position})

\* The indices of the cursors of b at positions from..(to - 1).
AnchorsIn(b, from, to) ==
    {i \in Idx(b) : from <= cursorPos(b, i) /\ cursorPos(b, i) < to}

\* C3: for a cursor with a selection, in every binding after bind and any
\* edits, indices returns slice(s, e+1) with s the smallest index whose
\* cursor is at or after the start of the selection and e the largest index
\* whose cursor is before its end, whenever s <= e; it returns False when
\* no cursor is in the selection.
C3_SelectionRange ==
    SelectionCall =>
        IF AnchorsIn(qB, qStart, qEnd) = {}
        THEN ret.result = False
        ELSE LET s == Least({i \in Idx(qB) : cursorPos(qB, i) >= qStart})
                 e == Greatest({i \in Idx(qB) : cursorPos(qB, i) < qEnd})
             IN  s <= e => ret.result = Slice(s, e + 1)

\* ------------------------------------------- exact lookups (SpecCursor)

\* The keys of table tbl whose line is a line of text t.
InRange(t, tbl) == {k \in DOMAIN tbl : 1 <= k[1] /\ k[1] <= blockCount(t)}

\* C10: cursor(line, column) returns the cursor made for the key, which
\* before any edit is at the start of the line plus the column, for every
\* key of the table with a line of the document, and fails (KeyError) for
\* every other key; after edits it returns the cursor made for the key.
C10_ExactLookup ==
    ret.op = "cursor" =>
        /\ edits = 0 =>
             IF ret.arg \in InRange(qT, links[url[qB.document]])
             THEN /\ ret.result.tag = "cursor"
                  /\ qB.position[ret.result.cursor]
                       = blockPosition(qT, ret.arg[1] - 1) + ret.arg[2]
             ELSE ret.result.tag = "KeyError"
        /\ ret.result.tag = "cursor" =>
             ret.result.cursor
               = 1 + Cardinality({k \in DOMAIN qB.cursor_dict : KeyLess(k, ret.arg)})

\* ---------------------------------------------------- registry (SpecReg)

\* C5: the registry has a binding of a file only to a document that is
\* alive, so that once the document bound to a file is destroyed no lookup
\* finds a binding of the file; and the binding of a file goes away only
\* when its document is destroyed or a new binding replaces it.
C5_BindingLifetime ==
    /\ [](\A f \in DOMAIN docs :
            docs[f] # 0 => status[bl[docs[f]].document] = "alive")
    /\ []((ret.op = "Links.cursor" /\ ret.result.tag # "None")
            => (ret.bound # 0 /\ status[bl[ret.bound].document] = "alive"))
    /\ [][\A f \in DOMAIN docs :
            (docs[f] # 0 /\ docs'[f] # docs[f])
            => \/ status'[bl[docs[f]].document] = "destroyed"
               \/ (Len(bl') = Len(bl) + 1 /\ docs'[f] = Len(bl'))]_vars

\* C5 happens: the document of the last binding made is destroyed and the
\* registry has no binding of its file.
C5_Witness ==
    /\ Len(bl) > 0
    /\ status[bl[Len(bl)].document] = "destroyed"
    /\ docs[url[bl[Len(bl)].document]] = 0

\* C6: Links.cursor(link, load) never ends in an error: for every link it
\* returns a cursor or None.
C6_ResolveNeverFails ==
    ret.op = "Links.cursor" => ret.result.tag \in {"cursor", "None"}

\* C14: Links.cursor calls app.openUrl only when the url of the link
\* matches, its file has no live binding and load is true; it calls it at
\* most once and then looks the file up once more, and returns the cursor
\* of the link if the file is bound by then and None otherwise; with load
\* false or a url that does not match it never calls app.openUrl.
C14_OpensOnlyWhenAbsent ==
    ret.op = "Links.cursor" =>
        /\ ret.requests \in {0, 1}
        /\ ret.requests = 1 <=>
              (textedit_match(ret.arg.link) /\ ret.before = 0 /\ ret.arg.load)
        /\ ret.requests = 1 =>
              IF ret.bound # 0
              THEN ret.result.tag = "cursor"
              ELSE ret.result = None

\* The part of C14 that the code keeps: when and how often app.openUrl is
\* called, and None when the file is not bound after the call.
C14_Requests ==
    ret.op = "Links.cursor" =>
        /\ ret.requests \in {0, 1}
        /\ ret.requests = 1 <=>
              (textedit_match(ret.arg.link) /\ ret.before = 0 /\ ret.arg.load)
        /\ (ret.requests = 1 /\ ret.bound = 0) => ret.result = None
        /\ (ret.requests = 1 /\ ret.bound # 0) =>
              ret.result.tag \in {"cursor", "KeyError"}

\* C7: a binding has one cursor for each key of the table whose line is a
\* line of the document (1 <= line <= blockCount) and none for the other
\* keys: the number of its cursors is the number of those keys.
C7_BindKeepsInRangeKeys ==
    \A b \in 1..Len(bl) :
        LET keys == InRange(text[bl[b].document], links[url[bl[b].document]])
        IN  /\ Len(bl[b].cursors) = Cardinality(keys)
            /\ Len(bl[b].destinations) = Cardinality(keys)
            /\ DOMAIN bl[b].cursor_dict = keys

\* C7 happens: a binding of a table with a key of a line of the document
\* and a key of a line that is not.
C7_Witness ==
    \E b \in 1..Len(bl) :
        LET tbl == links[url[bl[b].document]]
            keys == InRange(text[bl[b].document], tbl)
        IN  /\ keys # {}
            /\ keys # DOMAIN tbl
            /\ Len(bl[b].cursors) = Cardinality(keys)

\* -------------------------------------------------- link table (SpecScan)

\* The links of Poppler document doc from page n (1-based) on, in the
\* order of the scan, each with the number of its page.
RECURSIVE Flatten(_, _)
Flatten(doc, n) ==
    IF n > Len(doc) THEN <<>>
    ELSE [i \in 1..Len(doc[n]) |-> [num |-> n - 1, link |-> doc[n][i]]]
         \o Flatten(doc, n + 1)

\* The links of the Poppler document whose Links object is constructed.
Scanned == Flatten(pages["p1"], 1)

\* The file name and the key of a textedit url.
FileOf(u) == IF u.path = "a%2Ely" THEN "a.ly" ELSE u.path
KeyOf(u) == <<u.nums[1], u.nums[2]>>

\* Entry e of Scanned is a LinkBrowse whose url is textedit://path:line:
\* column followed by one more group :digits.
WithTail(e) ==
    e.link.browse /\ e.link.url.scheme = "textedit" /\ Len(e.link.url.nums) = 3

\* Entry e of Scanned is a LinkBrowse whose url is textedit://path:line:
\* column, at its end or followed by one more group :digits.
ThreePart(e) ==
    e.link.browse /\ e.link.url.scheme = "textedit"
    /\ Len(e.link.url.nums) \in {2, 3}

\* The destination (pageNum, linkArea) of entry e is in the table, under
\* the file and the key of its url.
Recorded(e) ==
    /\ FileOf(e.link.url) \in DOMAIN links
    /\ KeyOf(e.link.url) \in DOMAIN links[FileOf(e.link.url)]
    /\ InList(<<e.num, e.link.area>>, links[FileOf(e.link.url)][KeyOf(e.link.url)])

\* The destinations of the entries of Scanned with a tail, of file f and
\* key k, in the order of Scanned.
Encountered(f, k) ==
    LET es == SelectSeq(Scanned,
                  LAMBDA e : WithTail(e) /\ FileOf(e.link.url) = f
                             /\ KeyOf(e.link.url) = k)
    IN  [i \in 1..Len(es) |-> <<es[i].num, es[i].link.area>>]

\* C11: after the scan of Links.__init__ the list stored for a file and a key is the
\* list of the (pageNum, linkArea) of all links with a matching url of that
\* file and key, in the order of the scan (pages ascending, and the order
\* of page.links() within a page), each as often as it occurs; files and
\* keys without such a link have no entry.
C11_TableKeepsEncounterOrder ==
    pc \in {"bind", "done"} =>
        /\ DOMAIN links = {FileOf(Scanned[i].link.url) :
                              i \in {j \in 1..Len(Scanned) : WithTail(Scanned[j])}}
        /\ \A f \in DOMAIN links :
              /\ DOMAIN links[f] =
                    {KeyOf(Scanned[i].link.url) :
                        i \in {j \in 1..Len(Scanned) :
                                  WithTail(Scanned[j])
                                  /\ FileOf(Scanned[j].link.url) = f}}
              /\ \A k \in DOMAIN links[f] : links[f][k] = Encountered(f, k)

\* C11 happens: a key has the same destination twice and a destination of
\* another link of the first page, in the order of the page.
C11_Witness ==
    /\ pc = "done"
    /\ "a.ly" \in DOMAIN links
    /\ <<1, 0>> \in DOMAIN links["a.ly"]
    /\ links["a.ly"][<<1, 0>>] = << <<0, 2>>, <<0, 1>>, <<0, 2>> >>

\* C12 as stated: a link is in the table exactly when its url is
\* path:line:column at its end or followed by one more group :digits; a
\* url that ends after the column is recorded like one with the group.
C12_RecordedIffThreePart ==
    pc \in {"bind", "done"} =>
        \A i \in 1..Len(Scanned) : Recorded(Scanned[i]) <=> ThreePart(Scanned[i])

\* C12 amended: a link is in the table exactly when its url is
\* path:line:column followed by one more group :digits; every other link,
\* also one whose url ends after the column, is skipped without error.
C12_RecordedIffWithTail ==
    pc \in {"bind", "done"} =>
        \A i \in 1..Len(Scanned) : Recorded(Scanned[i]) <=> WithTail(Scanned[i])

\* C12 happens: a page has a link with the group, which is recorded, and a
\* link whose url ends after the column, which is not.
C12_Witness ==
    /\ pc = "done"
    /\ \E i, j \in 1..Len(Scanned) :
          /\ WithTail(Scanned[i]) /\ Recorded(Scanned[i])
          /\ ThreePart(Scanned[j]) /\ ~WithTail(Scanned[j])
          /\ ~Recorded(Scanned[j])

\* ------------------------------------------------ rebinding (SpecRebind)

\* The document of the BoundLinks made last is alive.
NewestAlive == Len(bl) > 0 /\ status[bl[Len(bl)].document] = "alive"

\* C19: a file has one binding, to the BoundLinks made last for it: when a
\* file bound to a document is bound to a second one the binding is to
\* the second; the binding stays as long as the document of the
\* BoundLinks made last is alive, whatever happens to the documents bound
\* before, through edits and calls of Links.cursor, and goes away when
\* that document is destroyed.
C19_RebindReplaces ==
    \A f \in DOMAIN docs :
        docs[f] = IF NewestAlive THEN Len(bl) ELSE 0

\* C19 happens: a.ly was bound to a document and then to a second one, a
\* document was edited, the first one was destroyed and a.ly is bound to
\* the second.
C19_Witness ==
    /\ Len(bl) = 2
    /\ status[bl[1].document] = "destroyed"
    /\ status[bl[2].document] = "alive"
    /\ edits > 0
    /\ instances = <<2>>
    /\ docs["a.ly"] = 2

\* ------------------------------------------- loaded documents (SpecOpen)

\* Document d is loaded in this step.
Loaded(d) == status[d] = "unloaded" /\ status'[d] = "alive"

\* This step makes a BoundLinks of document d and binds file f to it.
Binds(f, d) ==
    /\ Len(bl') = Len(bl) + 1
    /\ bl'[Len(bl')].document = d
    /\ SubSeq(bl', 1, Len(bl)) = bl
    /\ f \in DOMAIN docs' /\ docs'[f] = Len(bl')
    /\ instances' = Append(instances, Len(bl'))

\* File f has a binding to a document that is alive.
LiveBinding(f) == f \in DOMAIN docs /\ docs[f] # 0

\* C13 as stated: when a document is loaded, slotDocumentLoaded binds its
\* file to it exactly when the file has an entry in the table and has no
\* live binding; in every other case the registry is unchanged.
C13_BindsOnlyUnbound ==
    [][\A d \in Docs : Loaded(d) =>
          IF url[d] \in DOMAIN links /\ ~LiveBinding(url[d])
          THEN Binds(url[d], d)
          ELSE UNCHANGED <<bl, instances, docs>>]_vars

\* C13 amended: when a document is loaded, slotDocumentLoaded binds its
\* file to it exactly when the file has an entry in the table, replacing a
\* live binding of the file if there is one; when the file has no entry
\* the registry is unchanged.
C13_BindsWhenInTable ==
    [][\A d \in Docs : Loaded(d) =>
          IF url[d] \in DOMAIN links
          THEN Binds(url[d], d)
          ELSE UNCHANGED <<bl, instances, docs>>]_vars

\* C13 happens: a second document of a file is loaded while the first is
\* alive and bound, and the file is bound to the second.
C13_Witness ==
    /\ Len(bl) = 2
    /\ bl[1].document # bl[2].document
    /\ status[bl[1].document] = "alive"
    /\ status[bl[2].document] = "alive"
    /\ instances = <<1, 2>>
    /\ docs[url[bl[2].document]] = 2

\* ------------------------------------------------------ cache (SpecCache)

\* The Links objects constructed for Poppler document p.
BuiltFor(p) == {i \in 1..Len(built) : built[i].document = p}

\* C15: for each Poppler document the scan of Links.__init__ runs at most
\* once, every call of links(document) returns the same Links object,
\* which is the one constructed for the document with the table of its
\* pages, and the cache has an entry only for a document that is alive.
C15_BuiltOncePerDocument ==
    \A p \in Popplers :
        /\ Cardinality(BuiltFor(p)) <= 1
        /\ \A i \in 1..Len(returned[p]) :
              /\ returned[p][i] = returned[p][1]
              /\ returned[p][i] \in BuiltFor(p)
              /\ built[returned[p][i]].links = scanPages(pages[p], 0, <<>>)
        /\ cache[p] # 0 => (pstatus[p] = "alive" /\ cache[p] \in BuiltFor(p))
        /\ (pstatus[p] = "alive" /\ BuiltFor(p) # {}) => cache[p] \in BuiltFor(p)

\* C15 happens: links(document) was called twice for a document and twice
\* for another one, with one Links object constructed for each.
C15_Witness ==
    \E p, q \in Popplers :
        /\ p # q
        /\ Len(returned[p]) = 2 /\ returned[p][1] = returned[p][2]
        /\ Len(returned[q]) = 2 /\ returned[q][1] = returned[q][2]
        /\ returned[p][1] # returned[q][1]
        /\ Len(built) = 2

\* -------------------------------------------------------- lock (SpecLock)

\* C16: while Links.__init__ reads the Poppler document (the loop over the
\* pages) it holds the lock of the document, and no step changes the
\* document meanwhile, so that the table at the end of the loop is the
\* table of the pages as they are then; the lock is given back when the
\* loop ends: Links.__init__ does not hold it while it binds the open
\* documents nor when it returns.
C16_ScanUnderLock ==
    /\ [](pc = "scan" => lock[document] = "Links")
    /\ [](\A p \in Popplers : lock[p] = "Links" => (pc = "scan" /\ document = p))
    /\ [][pc = "scan" => pages' = pages]_vars
    /\ [][(pc = "scan" /\ pc' = "bind")
            => (links = scanPages(pages[document], 0, <<>>)
                /\ lock'[document] = "none")]_vars
    /\ [][bl' # bl => (pc = "bind" /\ lock[document] # "Links")]_vars

\* C16 happens: Links.__init__ has returned with a table and a binding,
\* and the renderer, with the lock, has changed the document since.
C16_Witness ==
    /\ pc = "done"
    /\ lock["p1"] = "renderer"
    /\ Len(bl) = 1
    /\ "a.ly" \in DOMAIN links
    /\ links # scanPages(pages["p1"], 0, <<>>)

\* -------------------------------------------------- queries (SpecQueries)

\* The keys for which BoundLinks b made the cursor at index i (0-based) of
\* its list of cursors.
KeysOfCursor(b, i) ==
    {k \in DOMAIN b.cursor_dict : b.cursor_dict[k] = b.cursors[i + 1]}

\* C17: in every BoundLinks, after bind, edits and calls of cursor and
\* indices, the lists of cursors and of destinations have the same length
\* and the destinations at an index are the list the table has for the one
\* key of the cursor at that index; no step changes the table or the
\* cursors, the destinations and the dictionary of a BoundLinks, and a
\* query changes no position either.
C17_DestinationsFollowCursors ==
    /\ [](\A b \in 1..Len(bl) :
            /\ Len(bl[b].cursors) = Len(bl[b].destinations)
            /\ \A i \in Idx(bl[b]) :
                  /\ Cardinality(KeysOfCursor(bl[b], i)) = 1
                  /\ \A k \in KeysOfCursor(bl[b], i) :
                        bl[b].destinations[i + 1] = links[url[bl[b].document]][k])
    /\ [][/\ links' = links
          /\ \A b \in 1..Len(bl) :
                /\ bl'[b].cursors = bl[b].cursors
                /\ bl'[b].destinations = bl[b].destinations
                /\ bl'[b].cursor_dict = bl[b].cursor_dict
                /\ bl'[b].document = bl[b].document
          /\ ret' # ret => bl' = bl]_vars

\* C17 happens: a BoundLinks with two cursors, one of which an edit has
\* moved, is queried, and has the destinations of the two keys.
C17_Witness ==
    /\ ret.op \in {"indices", "cursor"}
    /\ edits > 0
    /\ Len(qB.cursors) = 2
    /\ Len(qB.destinations) = 2
    /\ \E k \in DOMAIN qB.cursor_dict :
          qB.position[qB.cursor_dict[k]] # keyPosition(qT, k)
    /\ qB.destinations[1] # qB.destinations[2]

\* C20: every slice indices returns, for a cursor with or without a
\* selection, after bind and any edits, also when the binding has no
\* cursors or cursors at the same position, is a range start..stop-1 that
\* is not empty and within the list of cursors: 0 <= start < stop <=
\* number of cursors.
C20_SliceWithinCursors ==
    (ret.op = "indices" /\ ret.result.tag = "slice") =>
        /\ 0 <= ret.result.start
        /\ ret.result.start < ret.result.stop
        /\ ret.result.stop <= Len(qB.cursors)

\* C20 happens: after an edit two cursors are at the same position, and
\* indices returns the slice of the two for a selection over them.
C20_Witness ==
    /\ SelectionCall
    /\ edits > 0
    /\ Len(qB.cursors) = 2
    /\ cursorPos(qB, 0) = cursorPos(qB, 1)
    /\ ret.result = Slice(0, 2)

====
